---- MODULE Spec2Model ----
(***************************************************************************)
(* Model of the GGCE closure engine (ggce/engine/system.py) and of the     *)
(* parameter containers (ggce/engine/structures.py).                       *)
(*                                                                         *)
(* Spec     : System.__init__ pipeline followed by get_basis calls.        *)
(* SpecCfg  : generate_all_legal_configurations over a richer model set.   *)
(* SpecGen  : the generator config_space_gen, consumed item by item.       *)
(* SpecPar  : SystemParams.prime(); LoadedParams.__init__ and iteration.   *)
(***************************************************************************)
EXTENDS Integers, Sequences, FiniteSets, TLC

VARIABLES
    \* ---- config_space_gen consumed as a generator (SpecGen)
    gpc, g_length, g_total, g_values, g_out,
    \* ---- generate_all_legal_configurations / System (Spec, SpecCfg)
    pc, model, nb, z, config_dict, enumerated,
    fi, gen_keys, generalized_equations,
    master_none, master_f_arg_list,
    equations, totals, log, basis, basis_mode,
    \* ---- structures.py (SpecPar)
    ppc, perr, sp, terms, bt, pidx, lp, lidx, lp_solo, lp_zip, lp_prod,
    counter_max,
    \* ---- iterating a LoadedParams (SpecPar)
    lp_master, counter, yielded, stopped, previous, passes

gvars == <<gpc, g_length, g_total, g_values, g_out>>
svars == <<pc, model, nb, z, config_dict, enumerated, fi, gen_keys,
           generalized_equations, master_none, master_f_arg_list,
           equations, totals, log, basis, basis_mode>>
pvars == <<ppc, perr, sp, terms, bt, pidx, lp, lidx, lp_solo, lp_zip, lp_prod,
           counter_max>>
ivars == <<lp_master, counter, yielded, stopped, previous, passes>>
vars == <<gvars, svars, pvars, ivars>>

\* ------------------------------------------------------------------ bounds
MaxLen == 4
MaxTotal == 4

\* ----------------------------------------------------------------- helpers
RECURSIVE SumSeq(_)
SumSeq(s) == IF Len(s) = 0 THEN 0 ELSE Head(s) + SumSeq(Tail(s))

RECURSIVE Flatten(_)
Flatten(ss) == IF Len(ss) = 0 THEN <<>> ELSE Head(ss) \o Flatten(Tail(ss))

Range(s) == {s[i] : i \in 1..Len(s)}

NoRepeats(s) == \A i, j \in 1..Len(s) : i # j => s[i] # s[j]

RECURSIVE Binomial(_, _)
Binomial(n, k) ==
    IF k < 0 \/ k > n THEN 0
    ELSE IF k = 0 \/ k = n THEN 1
    ELSE Binomial(n - 1, k - 1) + Binomial(n - 1, k)

\* ------------------------------------------------------- config_space_gen
\* The values the for loop of line 46 runs over, from `first` on.
RangeUpTo_off(first, total_sum) == [i \in 1..(total_sum - first) |-> first + i - 1]
RangeUpTo(first, total_sum) == [i \in 1..(total_sum + 1 - first) |-> first + i - 1]

\* Line 48 for every permutation of one recursive call.
Prepend(value, permutations) ==
    [p \in 1..Len(permutations) |-> <<value>> \o permutations[p]]

RECURSIVE config_space_gen(_, _)
config_space_gen(length, total_sum) ==
    IF length = 1
    THEN << <<total_sum>> >>
    ELSE LET values == RangeUpTo(0, total_sum)
         IN  Flatten([v \in 1..Len(values) |->
                 Prepend(values[v], config_space_gen(length - 1, total_sum - values[v]))])

\* The generator as the interpreter runs it: g_values holds `value` of the
\* for loop of line 46 in each of the nested generators, outermost first; the
\* innermost generator has length 1 and yields what is left of the sum.
Remaining(i) == g_total - SumSeq(SubSeq(g_values, 1, i - 1))

\* The loop of level i has a value after the current one.
Advanceable(i) == (g_values[i] + 1) \in Range(RangeUpTo(0, Remaining(i)))

\* next() on the generator: one more tuple.
GenYield ==
    /\ \/ /\ gpc = "created"
          /\ g_length = 1 \/ Len(RangeUpTo(0, g_total)) > 0
          /\ g_values' = [i \in 1..(g_length - 1) |-> RangeUpTo(0, g_total)[1]]
       \/ /\ gpc = "running"
          /\ \E i \in 1..(g_length - 1) :
               /\ Advanceable(i)
               /\ \A j \in (i + 1)..(g_length - 1) : ~Advanceable(j)
               /\ g_values' = [j \in 1..(g_length - 1) |->
                                 IF j < i THEN g_values[j]
                                 ELSE IF j = i THEN g_values[i] + 1
                                 ELSE 0]
    /\ g_out' = Append(g_out, g_values' \o <<g_total - SumSeq(g_values')>>)
    /\ gpc' = "running"
    /\ UNCHANGED <<g_length, g_total>>
    /\ UNCHANGED <<svars, pvars, ivars>>

\* next() on the generator: StopIteration, every loop is at its last value.
GenStop ==
    /\ \/ /\ gpc = "running"
          /\ \A i \in 1..(g_length - 1) : ~Advanceable(i)
       \/ /\ gpc = "created"
          /\ g_length > 1 /\ Len(RangeUpTo(0, g_total)) = 0
    /\ gpc' = "exhausted"
    /\ UNCHANGED <<g_length, g_total, g_values, g_out>>
    /\ UNCHANGED <<svars, pvars, ivars>>

\* ------------------------------------------------------------ model inputs
MaxTypes == 2
MaxPhonons == 3
MaxExtent == 2
MaxCap == 2
MaxDim == 2
MaxTerms == 2

\* phonon_max_per_site: <<>> is None, <<c>> is the cap c.
ModelsCfg ==
    {m \in [n_phonon_types : 1..MaxTypes,
            phonon_number : UNION {[1..n -> 0..MaxPhonons] : n \in 1..MaxTypes},
            phonon_absolute_extent : 1..MaxExtent,
            phonon_max_per_site : {<<>>} \cup {<<c>> : c \in 1..MaxCap},
            dimension : 1..MaxDim] :
        /\ Len(m.phonon_number) = m.n_phonon_types
        /\ SumSeq(m.phonon_number) <= MaxPhonons}

\* --------------------------------------- generate_all_legal_configurations
\* np.array(cc).reshape(n_phonon_types, -1): row-major, one row per type.
Reshape(cc, n_phonon_types) ==
    LET w == Len(cc) \div n_phonon_types
    IN  [i \in 1..n_phonon_types |-> [j \in 1..w |-> cc[(i - 1) * w + j]]]

Width(config) == Len(config[1])

ColSum(config, j) == SumSeq([i \in 1..Len(config) |-> config[i][j]])

MatSum(config) == SumSeq([i \in 1..Len(config) |-> SumSeq(config[i])])

\* Legality filter: a boson of any type on both edges of the cloud, and no
\* entry above the optional per-site cap.
config_legal(config, max_phonons_per_site) ==
    /\ ColSum(config, 1) >= 1
    /\ ColSum(config, Width(config)) >= 1
    /\ \/ max_phonons_per_site = <<>>
       \/ \A i \in 1..Len(config) : \A j \in 1..Width(config) :
              config[i][j] <= max_phonons_per_site[1]

SelectLegal(c, cap) == SelectSeq(c, LAMBDA cc : config_legal(cc, cap))

\* Body of the (nb, z) loop, lines 81-101: the legal configs of one pass.
tmp_legal_configs_swapped(m, n, w) ==
    LET c == config_space_gen(w * m.n_phonon_types, n)
        r == [k \in 1..Len(c) |-> Reshape(c[k], Len(c[k]) \div m.n_phonon_types)]
    IN  SelectLegal(r, m.phonon_max_per_site)
tmp_legal_configs(m, n, w) ==
    LET c == config_space_gen(w * m.n_phonon_types, n)
        r == [k \in 1..Len(c) |-> Reshape(c[k], m.n_phonon_types)]
    IN  SelectLegal(r, m.phonon_max_per_site)

nb_max == SumSeq(model.phonon_number)

\* logger.critical is fatal: the call does not return, whatever would have
\* followed it. logger.error and logger.info return.
logger_critical(continue_at) == "aborted"

logger_error(continue_at) == continue_at

DimensionUnsupported_off(m) == m.dimension > 2
DimensionUnsupported(m) == m.dimension > 1

\* Lines 67-78: the dimension check, then the empty mapping.
GenerateBegin ==
    /\ pc = "start"
    /\ IF DimensionUnsupported(model)
       THEN /\ pc' = logger_critical("enumerate")
            /\ log' = log \cup {"critical: >1 dimensions"}
            /\ UNCHANGED <<config_dict, nb, z>>
       ELSE /\ pc' = "enumerate"
            /\ config_dict' = [n \in 1..nb_max |-> <<>>]
            /\ nb' = 1
            /\ z' = 1
            /\ UNCHANGED log
    /\ UNCHANGED <<model, enumerated, fi, gen_keys, generalized_equations,
                   master_none, master_f_arg_list, equations, totals,
                   basis, basis_mode>>
    /\ UNCHANGED <<gvars, pvars, ivars>>

\* One pass of the loops of lines 79-104.
EnumerateStep ==
    /\ pc = "enumerate"
    /\ nb <= nb_max
    /\ config_dict' = [config_dict EXCEPT ![nb] = @ \o tmp_legal_configs(model, nb, z)]
    /\ enumerated' = enumerated + 1
    /\ IF z < model.phonon_absolute_extent
       THEN z' = z + 1 /\ nb' = nb
       ELSE z' = 1 /\ nb' = nb + 1
    /\ UNCHANGED <<pc, model, fi, gen_keys, generalized_equations,
                   master_none, master_f_arg_list, equations, totals, log,
                   basis, basis_mode>>
    /\ UNCHANGED <<gvars, pvars, ivars>>

\* Line 106: return config_dict.
ReturnConfigs ==
    /\ pc = "enumerate"
    /\ nb > nb_max
    /\ pc' = "configs"
    /\ UNCHANGED <<model, nb, z, config_dict, enumerated, fi, gen_keys,
                   generalized_equations, master_none, master_f_arg_list,
                   equations, totals, log, basis, basis_mode>>
    /\ UNCHANGED <<gvars, pvars, ivars>>

\* -------------------------------------------------- Equation / GreenEquation
\* The phonon-configuration identity of an index term is the configuration
\* matrix itself; the Green's function has no configuration.
GreenId == <<>>

\* The argument deltas an equation may require of an identity.
Deltas == <<0, 1>>

\* An identity outside the truncation: nb_max + 1 bosons on one site.
BeyondId == [i \in 1..model.n_phonon_types |-> <<IF i = 1 THEN nb_max + 1 ELSE 0>>]

\* A coupling term creates or annihilates one boson, so an equation with n
\* phonons refers to identities with n - 1 or n + 1 phonons.
TargetIds(n) ==
    (IF n = 0 THEN <<>> ELSE IF n = 1 THEN <<GreenId>> ELSE config_dict[n - 1])
    \o (IF n + 1 <= nb_max THEN config_dict[n + 1] ELSE <<BeyondId>>)

TermList(n) ==
    Flatten([k \in 1..Len(TargetIds(n)) |->
        [d \in 1..Len(Deltas) |-> [cfg |-> TargetIds(n)[k], arg |-> Deltas[d]]]])

\* _populate_f_arg_terms: identity -> the deltas this equation requires of it.
FArgTerms(terms_list) ==
    [k \in {terms_list[i].cfg : i \in 1..Len(terms_list)} |->
        LET of_k == SelectSeq(terms_list, LAMBDA t : t.cfg = k)
        IN  [i \in 1..Len(of_k) |-> of_k[i].arg]]

\* The equations Equation.from_config (n >= 1) or GreenEquation (n = 0) may
\* return: any right-hand side of at most MaxTerms terms.
PickAt(s, I) ==
    LET sel == SelectSeq([i \in 1..Len(s) |-> i], LAMBDA i : i \in I)
    IN  [k \in 1..Len(sel) |-> s[sel[k]]]

EquationsFor(cfg, n) ==
    {[cfg |-> cfg, delta |-> <<>>, terms_list |-> tl, f_arg_terms |-> FArgTerms(tl)] :
        tl \in {PickAt(TermList(n), I) :
                  I \in {J \in SUBSET (1..Len(TermList(n))) : Cardinality(J) <= MaxTerms}}}

\* _init_full(delta) on a deep copy: binds the index term; the identities of
\* the right-hand-side terms are the required (identity, delta) pairs.
InitFull(eq, true_delta) == [eq EXCEPT !.delta = <<true_delta>>]

IndexId(eq) == <<eq.cfg, eq.delta>>

TermId(t) == <<t.cfg, <<t.arg>> >>

\* ------------------------------------------------------------------ System
\* Line 144 assigning the equation's list instead of appending to the list.
AppendMasterDictionary_replace(is_none, master, eq) ==
    IF is_none
    THEN eq.f_arg_terms
    ELSE [k \in DOMAIN master \cup DOMAIN eq.f_arg_terms |->
            IF k \in DOMAIN eq.f_arg_terms THEN eq.f_arg_terms[k] ELSE master[k]]
\* _append_master_dictionary
AppendMasterDictionary(is_none, master, eq) ==
    IF is_none
    THEN eq.f_arg_terms
    ELSE [k \in DOMAIN master \cup DOMAIN eq.f_arg_terms |->
            (IF k \in DOMAIN master THEN master[k] ELSE <<>>)
            \o (IF k \in DOMAIN eq.f_arg_terms THEN eq.f_arg_terms[k] ELSE <<>>)]

\* Line 137 without deepcopy: the master list is the equation's own map.
FirstMapAfterMerge_shared(own, master) == master
\* Line 137: the master list starts as a deep copy of the first equation's
\* map, so what is appended or reassigned in the master list later (lines
\* 144-146, 170) leaves that equation's map `own` as it was; the maps of the
\* later equations are only read.
FirstMapAfterMerge(own, master) == own

\* The generalized equations once the master list has become `master`.
OwnMaps(keys, ge, master) ==
    LET filled == SelectSeq(keys, LAMBDA n : n \in DOMAIN ge /\ Len(ge[n]) > 0)
    IN  IF Len(filled) = 0 THEN ge
        ELSE [ge EXCEPT ![filled[1]][1].f_arg_terms = FirstMapAfterMerge(@, master)]

\* _determine_unique_dictionary; `order` is the iteration order of the sets.
DetermineUniqueDictionary_keep(master, order) == master
DetermineUniqueDictionary(master, order) ==
    [k \in DOMAIN master |-> SelectSeq(order, LAMBDA d : d \in Range(master[k]))]

SetOrders(s) ==
    {p \in [1..Len(s) -> Range(s)] : \A i, j \in 1..Len(s) : i # j => p[i] # p[j]}

\* Counting the keys instead of the deltas under them.
GetTotalTerms_keys(master) == Cardinality(DOMAIN master)
\* _get_total_terms
GetTotalTerms(master) ==
    LET RECURSIVE SumOver(_)
        SumOver(K) == IF K = {} THEN 0
                      ELSE LET k == CHOOSE x \in K : TRUE
                           IN  Len(master[k]) + SumOver(K \ {k})
    IN  SumOver(DOMAIN master)

\* sum([len(val) for val in d.values()]) over a bucketed mapping
CountAll(keys, d) == SumSeq([i \in 1..Len(keys) |-> Len(d[keys[i]])])

\* The (bucket, position) pairs in the order lines 213-215 visit them.
FilingOrder ==
    Flatten([n \in 1..nb_max |-> [j \in 1..Len(config_dict[n]) |-> <<n, j>>]])

\* Line 210.
InitializeGeneralizedBegin ==
    /\ pc = "configs"
    /\ generalized_equations' = [n \in 1..nb_max |-> <<>>]
    /\ gen_keys' = [n \in 1..nb_max |-> n]
    /\ fi' = 1
    /\ pc' = "filing"
    /\ UNCHANGED <<model, nb, z, config_dict, enumerated, master_none,
                   master_f_arg_list, equations, totals, log, basis, basis_mode>>
    /\ UNCHANGED <<gvars, pvars, ivars>>

\* _append_generalized_equation, one iteration of lines 213-215.
AppendGeneralizedEquation ==
    /\ pc = "filing"
    /\ fi <= Len(FilingOrder)
    /\ LET n_phonons == FilingOrder[fi][1]
           config == config_dict[n_phonons][FilingOrder[fi][2]]
       IN  \E eq \in EquationsFor(config, n_phonons) :
             LET merged == AppendMasterDictionary(master_none, master_f_arg_list, eq)
             IN  /\ master_f_arg_list' = merged
                 /\ master_none' = FALSE
                 /\ generalized_equations' =
                       OwnMaps(gen_keys,
                               [generalized_equations EXCEPT ![n_phonons] = Append(@, eq)],
                               merged)
    /\ fi' = fi + 1
    /\ UNCHANGED <<pc, model, nb, z, config_dict, enumerated, gen_keys,
                   equations, totals, log, basis, basis_mode>>
    /\ UNCHANGED <<gvars, pvars, ivars>>

\* total_generalized_equations: the analytic count the engine compares L with.
\* The formula is not part of this engine; it agrees with L or it does not.
AnalyticPredictions(L) == {L, L + 1}

\* Lines 194-204 fatal instead of logged.
PredictOutcome_fatal(L, T) == IF L = T THEN "info" ELSE "critical"
\* _predict_total_terms, lines 194-204: what is logged for L against T.
PredictOutcome(L, T) == IF L = T THEN "info" ELSE "error"

\* Green's function filed in bucket 1 instead of bucket 0.
FileGreen_one(ge, eq) ==
    [n \in DOMAIN ge \cup {1} |-> IF n = 1 THEN <<eq>> ELSE ge[n]]
\* Line 221: self._generalized_equations[0] = [eq]
FileGreen(ge, eq) ==
    [n \in DOMAIN ge \cup {0} |-> IF n = 0 THEN <<eq>> ELSE ge[n]]

\* The keys kept in ascending order instead of insertion order.
KeysAfterGreen_front(keys, ge) ==
    SelectSeq([i \in 1..(nb_max + 2) |-> i - 1],
              LAMBDA n : n \in DOMAIN ge /\ n \notin Range(keys)) \o keys
\* A key assigned for the first time goes to the end of the dict's key order.
KeysAfterGreen(keys, ge) ==
    keys \o SelectSeq([i \in 1..(nb_max + 2) |-> i - 1],
                      LAMBDA n : n \in DOMAIN ge /\ n \notin Range(keys))

\* Lines 217-224: the Green's function equation, deduplication, prediction.
FinishGeneralized ==
    /\ pc = "filing"
    /\ fi > Len(FilingOrder)
    /\ \E eq \in EquationsFor(GreenId, 0) :
       \E order \in SetOrders(Deltas) :
         LET merged == AppendMasterDictionary(master_none, master_f_arg_list, eq)
             filed == FileGreen(generalized_equations, eq)
             keys == KeysAfterGreen(gen_keys, filed)
             unique == DetermineUniqueDictionary(merged, order)
             ge == OwnMaps(keys, filed, unique)
             L == CountAll(keys, ge)
         IN  /\ master_f_arg_list' = unique
             /\ master_none' = FALSE
             /\ generalized_equations' = ge
             /\ gen_keys' = keys
             /\ IF model.n_phonon_types = 1 /\ model.phonon_max_per_site = <<>>
                THEN \E T \in AnalyticPredictions(L) :
                       LET o == PredictOutcome(L, T)
                       IN  /\ log' = log \cup {IF o = "info" THEN "info: analytic count agrees"
                                               ELSE "error: analytic count differs"}
                           /\ pc' = IF o = "critical" THEN logger_critical("generalized")
                                    ELSE logger_error("generalized")
                ELSE /\ log' = log \cup {"info: predicted generalized equations"}
                     /\ pc' = "generalized"
    /\ UNCHANGED <<model, nb, z, config_dict, enumerated, fi, equations, totals,
                   basis, basis_mode>>
    /\ UNCHANGED <<gvars, pvars, ivars>>

\* Lines 241-244 with eq_copy = eq: every pass binds the one shared object.
BindLoop_shared(eq, l_deltas) ==
    LET last == IF Len(l_deltas) = 0 THEN eq
                ELSE InitFull(eq, l_deltas[Len(l_deltas)])
    IN  [eq |-> last, copies |-> [i \in 1..Len(l_deltas) |-> last]]
\* Lines 241-244 for one generalized equation: `copies` are the objects
\* appended to the bucket, `eq` is the generalized equation after the loop.
\* deepcopy makes each eq_copy an object of its own, so _init_full acts on
\* the copy alone.
BindLoop(eq, l_deltas) ==
    [eq |-> eq, copies |-> [i \in 1..Len(l_deltas) |-> InitFull(eq, l_deltas[i])]]

\* Lines 237-244 leaving the loop of line 241 after its first pass.
Expand_first(keys, ge, master) ==
    [n \in DOMAIN ge |->
        Flatten([e \in 1..Len(ge[n]) |->
            SubSeq(BindLoop(ge[n][e], master[ge[n][e].cfg]).copies, 1, 1)])]
\* Lines 237-244: every generalized equation bound to every delta of its key.
Expand(keys, ge, master) ==
    [n \in DOMAIN ge |->
        Flatten([e \in 1..Len(ge[n]) |->
            BindLoop(ge[n][e], master[ge[n][e].cfg]).copies])]

\* The generalized equations as lines 237-244 leave them.
GeneralizedAfterExpand(ge, master) ==
    [n \in DOMAIN ge |->
        [e \in 1..Len(ge[n]) |-> BindLoop(ge[n][e], master[ge[n][e].cfg]).eq]]

AllGeneralized(keys, ge) == Flatten([i \in 1..Len(keys) |-> ge[keys[i]]])

\* Lines 248-255 fatal instead of logged.
CountOutcome_fatal(L, t) == IF L = t THEN "info" ELSE "critical"
\* Lines 248-255: what is logged for L against totals.
CountOutcome(L, t) == IF L = t THEN "info" ELSE "error"

\* _initialize_equations
InitializeEquations ==
    /\ pc = "generalized"
    /\ totals' = GetTotalTerms(master_f_arg_list)
    /\ LET all == AllGeneralized(gen_keys, generalized_equations)
       IN  IF \E i \in 1..Len(all) : all[i].cfg \notin DOMAIN master_f_arg_list
           THEN \* KeyError at line 240
                /\ pc' = "aborted"
                /\ log' = log \cup {"KeyError"}
                /\ UNCHANGED <<equations, generalized_equations>>
           ELSE LET eqs == Expand(gen_keys, generalized_equations, master_f_arg_list)
                    L == CountAll(gen_keys, eqs)
                    o == CountOutcome(L, GetTotalTerms(master_f_arg_list))
                IN  /\ equations' = eqs
                    /\ generalized_equations' =
                          GeneralizedAfterExpand(generalized_equations, master_f_arg_list)
                    /\ log' = log \cup {IF o = "info" THEN "info: generated total equations"
                                        ELSE "error: equation count differs"}
                    /\ pc' = IF o = "critical" THEN logger_critical("expanded")
                             ELSE logger_error("expanded")
    /\ UNCHANGED <<model, nb, z, config_dict, enumerated, fi, gen_keys,
                   master_none, master_f_arg_list, basis, basis_mode>>
    /\ UNCHANGED <<gvars, pvars, ivars>>

AllEquations == Flatten([i \in 1..Len(gen_keys) |-> equations[gen_keys[i]]])

\* Lines 262-268
unique_short_identifiers == {IndexId(AllEquations[i]) : i \in 1..Len(AllEquations)}

all_terms_rhs ==
    UNION {{TermId(AllEquations[i].terms_list[j]) :
                j \in 1..Len(AllEquations[i].terms_list)} : i \in 1..Len(AllEquations)}

\* Line 270 with containment instead of equality.
ClosureValid_subset(defined, referenced) == defined \subseteq referenced
\* Line 270
ClosureValid(defined, referenced) == defined = referenced

\* _final_checks; logger.critical is fatal.
FinalChecks ==
    /\ pc = "expanded"
    /\ IF ClosureValid(unique_short_identifiers, all_terms_rhs)
       THEN /\ log' = log \cup {"info: closure checked and valid"}
            /\ pc' = "done"
       ELSE /\ log' = log \cup {"critical: invalid closure"}
            /\ pc' = logger_critical("done")
    /\ UNCHANGED <<model, nb, z, config_dict, enumerated, fi, gen_keys,
                   generalized_equations, master_none, master_f_arg_list,
                   equations, totals, basis, basis_mode>>
    /\ UNCHANGED <<gvars, pvars, ivars>>

\* dict assignment in a loop: the last position of an identity wins.
LastIndex(l, id) ==
    CHOOSE i \in 1..Len(l) :
        /\ IndexId(l[i]) = id
        /\ \A j \in (i + 1)..Len(l) : IndexId(l[j]) # id

\* Lines 368-372 with the counter started at one.
FullBasis_one(l) ==
    [id \in {IndexId(l[i]) : i \in 1..Len(l)} |-> LastIndex(l, id)]
\* Lines 368-372: cc counts the equations visited so far.
FullBasis(l) ==
    [id \in {IndexId(l[i]) : i \in 1..Len(l)} |-> LastIndex(l, id) - 1]

\* Lines 378-382: enumerate() within one bucket.
LocalBasis(d) == [n \in DOMAIN d |-> FullBasis(d[n])]

\* get_basis
GetBasis ==
    /\ pc = "done"
    /\ \E full_basis \in BOOLEAN :
         /\ basis_mode' = IF full_basis THEN "full" ELSE "local"
         /\ basis' = IF full_basis THEN FullBasis(AllEquations) ELSE LocalBasis(equations)
    /\ UNCHANGED <<pc, model, nb, z, config_dict, enumerated, fi, gen_keys,
                   generalized_equations, master_none, master_f_arg_list,
                   equations, totals, log>>
    /\ UNCHANGED <<gvars, pvars, ivars>>

\* ------------------------------------------------------------ structures.py
MaxModels == 2
MaxParams == 2

KnownModels == {"H", "EFB", "SSH", "bondSSH"}

\* One label that is none of the four coupling types.
ModelLabels == KnownModels \cup {"Peierls"}

\* model_coupling_map: "value" for a returned magnitude, "raise" for the
\* RuntimeError of line 37.
model_coupling_map(coupling_type, ignore) ==
    IF ignore THEN "value"
    ELSE IF coupling_type \in KnownModels THEN "value"
    ELSE "raise"

\* SingleTerm(x, y, d, g, bt); y in half lattice units, g as the sign
\* applied to the coupling magnitude.
SingleTerm(x, y, d, g, b) == [x |-> x, y |-> y, d |-> d, g |-> g, bt |-> b]

\* The else branch of line 332 adding no terms instead of raising.
ExtendTerms_silent(m, b) ==
    IF m = "H" THEN
        [raised |-> FALSE,
         terms |-> <<SingleTerm(0, 0, "+", -1, b), SingleTerm(0, 0, "-", -1, b)>>]
    ELSE [raised |-> FALSE, terms |-> <<>>]
\* SystemParams._extend_terms: the terms appended, or the RuntimeError.
ExtendTerms(m, b) ==
    IF m = "H" THEN
        [raised |-> FALSE,
         terms |-> <<SingleTerm(0, 0, "+", -1, b), SingleTerm(0, 0, "-", -1, b)>>]
    ELSE IF m = "EFB" THEN
        [raised |-> FALSE,
         terms |-> <<SingleTerm(1, 2, "+", 1, b), SingleTerm(-1, -2, "+", 1, b),
                     SingleTerm(1, 0, "-", 1, b), SingleTerm(-1, 0, "-", 1, b)>>]
    ELSE IF m = "bondSSH" THEN
        [raised |-> FALSE,
         terms |-> <<SingleTerm(1, 1, "+", 1, b), SingleTerm(1, 1, "-", 1, b),
                     SingleTerm(-1, -1, "+", 1, b), SingleTerm(-1, -1, "-", 1, b)>>]
    ELSE IF m = "SSH" THEN
        [raised |-> FALSE,
         terms |-> <<SingleTerm(1, 0, "+", 1, b), SingleTerm(1, 0, "-", 1, b),
                     SingleTerm(1, 2, "+", -1, b), SingleTerm(1, 2, "-", -1, b),
                     SingleTerm(-1, -2, "+", 1, b), SingleTerm(-1, -2, "-", 1, b),
                     SingleTerm(-1, 0, "+", -1, b), SingleTerm(-1, 0, "-", -1, b)>>]
    ELSE [raised |-> TRUE, terms |-> <<>>]

\* A SystemParams after __init__: Omega and the couplings have one entry per
\* model; temperature is 0 or positive.
SystemParamsSet ==
    [models : UNION {[1..n -> ModelLabels] : n \in 1..MaxModels},
     use_g : BOOLEAN,
     temperature : {0, 1},
     n_boson_types : 1..MaxModels,
     models_vis : {<<>>}]

\* Lines 343-345
PrimeBegin ==
    /\ ppc = "prime"
    /\ terms' = <<>>
    /\ bt' = 0
    /\ pidx' = 1
    /\ ppc' = "priming"
    /\ UNCHANGED <<perr, sp, lp, lidx, lp_solo, lp_zip, lp_prod, counter_max>>
    /\ UNCHANGED <<gvars, svars, ivars>>

\* One iteration of the loop of lines 347-371.
PrimeStep ==
    /\ ppc = "priming"
    /\ pidx <= Len(sp.models)
    /\ LET m == sp.models[pidx]
           first == ExtendTerms(m, bt)
           second == ExtendTerms(m, bt + 1)
       IN  IF model_coupling_map(m, sp.use_g) = "raise"
           THEN /\ ppc' = "raised"
                /\ perr' = "RuntimeError: unknown coupling_type"
                /\ UNCHANGED <<terms, bt, pidx>>
           ELSE IF first.raised
           THEN /\ ppc' = "raised"
                /\ perr' = "RuntimeError: unknown model type"
                /\ UNCHANGED <<terms, bt, pidx>>
           ELSE IF sp.temperature # 0 /\ second.raised
           THEN /\ ppc' = "raised"
                /\ perr' = "RuntimeError: unknown model type"
                /\ terms' = terms \o first.terms
                /\ bt' = bt + 1
                /\ UNCHANGED pidx
           ELSE /\ terms' = terms \o first.terms
                             \o (IF sp.temperature # 0 THEN second.terms ELSE <<>>)
                /\ bt' = bt + (IF sp.temperature # 0 THEN 2 ELSE 1)
                /\ pidx' = pidx + 1
                /\ UNCHANGED <<ppc, perr>>
    /\ UNCHANGED <<sp, lp, lidx, lp_solo, lp_zip, lp_prod, counter_max>>
    /\ UNCHANGED <<gvars, svars, ivars>>

Doubled(l) == Flatten([i \in 1..Len(l) |-> <<l[i], l[i]>>])

\* Lines 374-422: thermofield doubling of the per-type lists.
PrimeFinish ==
    /\ ppc = "priming"
    /\ pidx > Len(sp.models)
    /\ IF sp.temperature > 0
       THEN sp' = [sp EXCEPT
                     !.n_boson_types = 2 * @,
                     !.models = Doubled(@),
                     !.models_vis = [i \in 1..(2 * Len(sp.models)) |->
                                        IF i % 2 = 1 THEN <<"real", Doubled(sp.models)[i]>>
                                        ELSE <<"fict", Doubled(sp.models)[i]>>]]
       ELSE sp' = [sp EXCEPT !.models_vis = [i \in 1..Len(sp.models) |-> <<"real", sp.models[i]>>]]
    /\ ppc' = "primed"
    /\ UNCHANGED <<perr, terms, bt, pidx, lp, lidx, lp_solo, lp_zip, lp_prod,
                   counter_max>>
    /\ UNCHANGED <<gvars, svars, ivars>>

\* ------------------------------------------------------------ LoadedParams
ListParams == {"M_extent", "N_bosons", "Omega", "lam", "g", "M_tfd", "N_tfd"}

LinspaceParams == {"Omega", "lam", "g"}

ScalarParams == {"hopping", "broadening", "absolute_extent", "max_bosons_per_site",
                 "temperature"}

\* The names the model draws from: of each group one, and two that
\* _assert_parameter does not know, one of them a key __next__ writes itself.
ParamNames == {"Omega", "M_extent", "hopping", "comment", "info"}

Cycles == {"solo", "zip", "prod", "prod-linspace", "cartesian"}

\* One entry of params: `shaped` says that vals has the shape the assertions
\* of _assert_parameter (or, for a name it does not check, the branch of
\* __init__) need for this cycle; len is len(vals).
ValsLens == {1, 2}

\* The values of vals, as whole numbers (a float is counted in units of
\* 0.0001): one value for solo, the list for zip and prod, the row
\* [start, stop, num] of the one model for prod-linspace.
ValsSet == {<<0>>, <<0, 0>>, <<0, 1>>, <<0, 4, 2>>, <<0, 10000, 2>>}

ValsFor(prm) ==
    IF ~prm.shaped THEN {<<0>>}
    ELSE IF prm.cycle \in {"zip", "prod"} THEN {<<0>>, <<0, 0>>, <<0, 1>>}
    ELSE IF prm.cycle = "prod-linspace" THEN {<<0, 4, 2>>, <<0, 10000, 2>>}
    ELSE {<<0>>}

ParamSet ==
    {prm \in [name : ParamNames, cycle : Cycles, shaped : BOOLEAN,
              len : ValsLens, vals : ValsSet] :
        /\ prm.vals \in ValsFor(prm)
        /\ prm.len = IF prm.shaped /\ prm.cycle \in {"zip", "prod"}
                     THEN Len(prm.vals) ELSE 1}

\* np.linspace(start, stop, num)
Linspace(start, stop, num) ==
    [i \in 1..num |-> IF num = 1 THEN start
                      ELSE start + ((i - 1) * (stop - start)) \div (num - 1)]

\* np.round(x, 3) of a value counted in units of 0.0001.
Round3(x) == ((x + 5) \div 10) * 10

\* Lines 117-122: what self.prod holds for a prod-linspace parameter.
LinspaceRows(vals) ==
    LET dat == Linspace(vals[1], vals[2], vals[3])
    IN  [i \in 1..Len(dat) |-> Round3(dat[i])]

\* What lines 110-122 store under the parameter's name.
Stored(prm) ==
    IF prm.cycle = "prod-linspace"
    THEN [prm EXCEPT !.vals = LinspaceRows(prm.vals),
                     !.len = Len(LinspaceRows(prm.vals))]
    ELSE prm

\* The else branches of lines 80-81 and 96-97 passing instead of raising.
AssertParameter_lenient(prm) ==
    IF prm.name \in ListParams THEN
        IF prm.cycle \in {"solo", "zip", "prod"}
        THEN IF prm.shaped THEN "pass" ELSE "AssertionError"
        ELSE IF prm.cycle = "prod-linspace"
        THEN IF prm.name \in LinspaceParams /\ prm.shaped THEN "pass" ELSE "AssertionError"
        ELSE "pass"
    ELSE "pass"
\* LoadedParams._assert_parameter
AssertParameter(prm) ==
    IF prm.name \in ListParams THEN
        IF prm.cycle \in {"solo", "zip", "prod"}
        THEN IF prm.shaped THEN "pass" ELSE "AssertionError"
        ELSE IF prm.cycle = "prod-linspace"
        THEN IF prm.name \in LinspaceParams /\ prm.shaped THEN "pass" ELSE "AssertionError"
        ELSE IF prm.shaped THEN "RuntimeError: unknown cycle" ELSE "AssertionError"
    ELSE IF prm.name \in ScalarParams THEN
        IF prm.cycle \in {"solo", "zip", "prod"}
        THEN IF prm.shaped THEN "pass" ELSE "AssertionError"
        ELSE "RuntimeError: unknown cycle"
    ELSE "pass"

\* Lines 110-124 with the final else passing instead of raising.
StoreOutcome_lenient(prm) ==
    IF prm.cycle = "solo" THEN "solo"
    ELSE IF prm.cycle = "zip" THEN (IF prm.shaped THEN "zip" ELSE "TypeError")
    ELSE IF prm.cycle = "prod" THEN "prod"
    ELSE IF prm.cycle = "prod-linspace" THEN (IF prm.shaped THEN "prod" ELSE "TypeError")
    ELSE "solo"
\* Lines 110-124: where __init__ stores the parameter, or what it raises.
StoreOutcome(prm) ==
    IF prm.cycle = "solo" THEN "solo"
    ELSE IF prm.cycle = "zip" THEN (IF prm.shaped THEN "zip" ELSE "TypeError")
    ELSE IF prm.cycle = "prod" THEN "prod"
    ELSE IF prm.cycle = "prod-linspace" THEN (IF prm.shaped THEN "prod" ELSE "TypeError")
    ELSE "RuntimeError: unknown cycle"

\* Lines 100-105
LoadBegin ==
    /\ ppc = "load"
    /\ lp_solo' = <<>>
    /\ lp_zip' = <<>>
    /\ lp_prod' = <<>>
    /\ lidx' = 1
    /\ lp' = <<>>
    /\ ppc' = "loading"
    /\ UNCHANGED <<perr, sp, terms, bt, pidx, counter_max>>
    /\ UNCHANGED <<gvars, svars, ivars>>

\* One iteration of the loop of lines 107-124. params is a dict read item
\* by item: lp holds the items read so far, no name twice.
LoadStep ==
    /\ ppc = "loading"
    /\ Len(lp) < MaxParams
    /\ \E prm \in ParamSet :
         /\ \A i \in 1..Len(lp) : lp[i].name # prm.name
         /\ lp' = Append(lp, prm)
         /\ LET a == AssertParameter(prm)
                o == StoreOutcome(prm)
            IN  IF a # "pass"
                THEN /\ ppc' = "raised" /\ perr' = a
                     /\ UNCHANGED <<lidx, lp_solo, lp_zip, lp_prod>>
                ELSE IF o \notin {"solo", "zip", "prod"}
                THEN /\ ppc' = "raised" /\ perr' = o
                     /\ UNCHANGED <<lidx, lp_solo, lp_zip, lp_prod>>
                ELSE /\ lp_solo' = IF o = "solo" THEN Append(lp_solo, prm) ELSE lp_solo
                     /\ lp_zip' = IF o = "zip" THEN Append(lp_zip, prm) ELSE lp_zip
                     /\ lp_prod' = IF o = "prod" THEN Append(lp_prod, Stored(prm))
                                   ELSE lp_prod
                     /\ lidx' = lidx + 1
                     /\ UNCHANGED <<ppc, perr>>
    /\ UNCHANGED <<sp, terms, bt, pidx, counter_max>>
    /\ UNCHANGED <<gvars, svars, ivars>>

RECURSIVE ProdSeq(_)
ProdSeq(s) == IF Len(s) = 0 THEN 1 ELSE Head(s) * ProdSeq(Tail(s))

None == -1

\* itertools.product: the last list runs fastest.
RECURSIVE itertools_product(_)
itertools_product(lists) ==
    IF Len(lists) = 0 THEN << <<>> >>
    ELSE LET rest == itertools_product(Tail(lists))
         IN  Flatten([i \in 1..Len(Head(lists)) |-> Prepend(Head(lists)[i], rest)])

\* Lines 132-135
zip_indexes ==
    IF Len(lp_zip) = 0 THEN <<None>> ELSE [i \in 1..lp_zip[1].len |-> i - 1]

\* Lines 126-142: the zip lengths must agree; master is the product of the
\* zip indexes with the prod value lists.
LoadFinish ==
    /\ ppc = "loading"
    /\ lidx = Len(lp) + 1
    /\ IF \E i \in 1..(Len(lp_zip) - 1) : lp_zip[i].len # lp_zip[i + 1].len
       THEN /\ ppc' = "raised" /\ perr' = "AssertionError"
            /\ UNCHANGED <<counter_max, lp_master, counter>>
       ELSE IF \E i \in 1..Len(lp_prod) : ~lp_prod[i].shaped
       THEN \* itertools.product over a value that is no iterable
            /\ ppc' = "raised" /\ perr' = "TypeError"
            /\ UNCHANGED <<counter_max, lp_master, counter>>
       ELSE LET m == itertools_product(<<zip_indexes>>
                                       \o [i \in 1..Len(lp_prod) |-> lp_prod[i].vals])
            IN  /\ lp_master' = m
                /\ counter' = 0
                /\ counter_max' = Len(m)
                /\ ppc' = "loaded"
                /\ UNCHANGED perr
    /\ UNCHANGED <<sp, terms, bt, pidx, lp, lidx, lp_solo, lp_zip, lp_prod>>
    /\ UNCHANGED <<yielded, stopped, previous, passes>>
    /\ UNCHANGED <<gvars, svars>>

\* ------------------------------------------------- LoadedParams as iterator
MaxPasses == 2

\* self.model and self.info
ModelValue == -1

InfoValue == -2

\* d[k] = v
Put(d, k, v) == [x \in DOMAIN d \cup {k} |-> IF x = k THEN v ELSE d[x]]

\* Line 154: copy.deepcopy(self.solo)
RECURSIVE CopySolo(_, _)
CopySolo(d, solo) ==
    IF Len(solo) = 0 THEN d
    ELSE CopySolo(Put(d, Head(solo).name, Head(solo).vals[1]), Tail(solo))

\* Lines 159-161
RECURSIVE PutZip(_, _, _)
PutZip(d, zipped, index) ==
    IF Len(zipped) = 0 THEN d
    ELSE PutZip(IF index # None
                THEN Put(d, Head(zipped).name, Head(zipped).vals[index + 1])
                ELSE d,
                Tail(zipped), index)

\* Lines 164-167
RECURSIVE PutProd(_, _, _, _)
PutProd(d, prod, current_parameters, ii) ==
    IF Len(prod) = 0 THEN d
    ELSE PutProd(Put(d, Head(prod).name, current_parameters[ii + 1]),
                 Tail(prod), current_parameters, ii + 1)

\* Lines 154-167 writing model and info last.
NextDict_late(current_parameters) ==
    Put(Put(PutProd(PutZip(CopySolo(<<>>, lp_solo), lp_zip, current_parameters[1]),
                    lp_prod, current_parameters, 1),
            "model", ModelValue),
        "info", InfoValue)
\* Lines 154-167: the dictionary __next__ returns for one entry of master.
NextDict(current_parameters) ==
    LET solo == CopySolo(<<>>, lp_solo)
        with_model == Put(Put(solo, "model", ModelValue), "info", InfoValue)
        with_zip == PutZip(with_model, lp_zip, current_parameters[1])
    IN  PutProd(with_zip, lp_prod, current_parameters, 1)

\* The counter left where it is.
ResetCounter_keep(c) == c
\* Line 145
ResetCounter(c) == 0

\* __iter__; `yielded` is what __next__ has returned since the last __iter__
\* (or since construction), `previous` the last pass that ran to its end.
Iter ==
    /\ ppc = "loaded"
    /\ passes < MaxPasses
    /\ counter' = ResetCounter(counter)
    /\ passes' = passes + 1
    /\ previous' = IF stopped THEN yielded ELSE previous
    /\ yielded' = <<>>
    /\ stopped' = FALSE
    /\ UNCHANGED lp_master
    /\ UNCHANGED <<gvars, svars, pvars>>

\* __next__
NextParams ==
    /\ ppc = "loaded"
    /\ IF counter >= counter_max
       THEN \* StopIteration
            /\ stopped' = TRUE
            /\ UNCHANGED <<counter, yielded>>
       ELSE /\ yielded' = Append(yielded, NextDict(lp_master[counter + 1]))
            /\ counter' = counter + 1
            /\ UNCHANGED stopped
    /\ UNCHANGED <<lp_master, previous, passes>>
    /\ UNCHANGED <<gvars, svars, pvars>>

\* ------------------------------------------------------------ specifications
GenIdle ==
    /\ gpc = "idle" /\ g_length = 1 /\ g_total = 0 /\ g_values = <<>> /\ g_out = <<>>

SysIdle ==
    /\ pc = "idle" /\ model = <<>> /\ nb = 0 /\ z = 0 /\ config_dict = <<>>
    /\ enumerated = 0 /\ fi = 0 /\ gen_keys = <<>> /\ generalized_equations = <<>>
    /\ master_none = TRUE /\ master_f_arg_list = <<>> /\ equations = <<>>
    /\ totals = 0 /\ log = {} /\ basis = <<>> /\ basis_mode = "none"

IterIdle ==
    /\ lp_master = <<>> /\ counter = 0 /\ yielded = <<>> /\ stopped = FALSE
    /\ previous = <<>> /\ passes = 0

ParIdle ==
    /\ ppc = "idle" /\ perr = "" /\ sp = <<>> /\ terms = <<>> /\ bt = 0 /\ pidx = 0
    /\ lp = <<>> /\ lidx = 0 /\ lp_solo = <<>> /\ lp_zip = <<>> /\ lp_prod = <<>>
    /\ counter_max = 0
    /\ IterIdle

NumLegal(m) ==
    SumSeq([n \in 1..SumSeq(m.phonon_number) |->
        SumSeq([w \in 1..m.phonon_absolute_extent |-> Len(tmp_legal_configs(m, n, w))])])

\* Systems of at most two legal configurations, three equations with the
\* Green's function.
ModelsSys == {m \in ModelsCfg : NumLegal(m) <= 2}

\* System.__init__, lines 287-290, for a model of ModelsSys.
SysStart(M) ==
    /\ pc = "start" /\ model \in M /\ nb = 0 /\ z = 0 /\ config_dict = <<>>
    /\ enumerated = 0 /\ fi = 0 /\ gen_keys = <<>> /\ generalized_equations = <<>>
    /\ master_none = TRUE /\ master_f_arg_list = <<>> /\ equations = <<>>
    /\ totals = 0 /\ log = {} /\ basis = <<>> /\ basis_mode = "none"

Init == GenIdle /\ ParIdle /\ SysStart(ModelsSys)

Next ==
    \/ GenerateBegin
    \/ EnumerateStep
    \/ ReturnConfigs
    \/ InitializeGeneralizedBegin
    \/ AppendGeneralizedEquation
    \/ FinishGeneralized
    \/ InitializeEquations
    \/ FinalChecks
    \/ GetBasis

Spec == Init /\ [][Next]_vars

InitCfg == GenIdle /\ ParIdle /\ SysStart(ModelsCfg)

NextCfg ==
    \/ GenerateBegin
    \/ EnumerateStep
    \/ ReturnConfigs

SpecCfg == InitCfg /\ [][NextCfg]_vars

InitGen ==
    /\ SysIdle /\ ParIdle
    /\ gpc = "created"
    /\ g_length \in 1..MaxLen
    /\ g_total \in 0..MaxTotal
    /\ g_values = <<>>
    /\ g_out = <<>>

NextGen ==
    \/ GenYield
    \/ GenStop

\* list(config_space_gen(...)) at line 81 keeps calling next() until the
\* generator is exhausted.
SpecGen == InitGen /\ [][NextGen]_vars /\ WF_vars(NextGen)

InitPar ==
    /\ GenIdle /\ SysIdle
    /\ perr = "" /\ terms = <<>> /\ bt = 0 /\ pidx = 0 /\ lidx = 0
    /\ lp_solo = <<>> /\ lp_zip = <<>> /\ lp_prod = <<>> /\ counter_max = 0
    /\ IterIdle
    /\ \/ /\ ppc = "prime"
          /\ sp \in {q \in SystemParamsSet : q.n_boson_types = Len(q.models)}
          /\ lp = <<>>
       \/ /\ ppc = "load"
          /\ sp = <<>>
          /\ lp = <<>>

NextPar ==
    \/ PrimeBegin
    \/ PrimeStep
    \/ PrimeFinish
    \/ LoadBegin
    \/ LoadStep
    \/ LoadFinish
    \/ Iter
    \/ NextParams

SpecPar == InitPar /\ [][NextPar]_vars

\* ------------------------------------------------------------------ claims
\* What has been yielded so far, and all of it once the generator stops.
C3_Yielded ==
    gpc \in {"created", "running", "exhausted"} =>
        /\ \A i \in 1..Len(g_out) :
              /\ Len(g_out[i]) = g_length
              /\ \A j \in 1..g_length : g_out[i][j] >= 0
              /\ SumSeq(g_out[i]) = g_total
        /\ NoRepeats(g_out)
        /\ Len(g_out) <= Binomial(g_total + g_length - 1, g_length - 1)
        /\ gpc = "exhausted" =>
              Len(g_out) = Binomial(g_total + g_length - 1, g_length - 1)
        /\ g_length = 1 => Range(g_out) \subseteq {<<g_total>>}
        /\ g_out = SubSeq(config_space_gen(g_length, g_total), 1, Len(g_out))

\* C3: for length >= 1 and total >= 0 config_space_gen(length, total)
\* terminates, having yielded exactly C(total + length - 1, length - 1)
\* tuples, each of `length` non-negative integers summing to `total`, none
\* twice; for length = 1 it yields only (total,).
C3_PartitionsExact == []C3_Yielded /\ <>(gpc = "exhausted")

C3_Witness ==
    /\ gpc = "exhausted"
    /\ g_length = 3
    /\ g_total = 2
    /\ Len(g_out) = 6

Returned == pc = "configs"

AllMatrices(t, w, total) ==
    LET rows == {r \in [1..w -> 0..total] : SumSeq(r) <= total}
    IN  {m \in [1..t -> rows] : MatSum(m) = total}

Occurrences(s, x) == Cardinality({i \in 1..Len(s) : s[i] = x})

\* C8: for a one-dimensional model the returned mapping has exactly the keys
\* 1..sum(phonon_number); every configuration under nb is an
\* (n_phonon_types x z) matrix, 1 <= z <= phonon_absolute_extent, of sum nb
\* that is legal, and every legal such matrix is under nb exactly once and
\* under no other key.
C8_ConfigMapping ==
    Returned =>
        /\ model.dimension = 1
        /\ DOMAIN config_dict = 1..nb_max
        /\ \A n \in 1..nb_max : \A i \in 1..Len(config_dict[n]) :
              LET c == config_dict[n][i]
              IN  /\ Len(c) = model.n_phonon_types
                  /\ Width(c) \in 1..model.phonon_absolute_extent
                  /\ \A r \in 1..Len(c) : Len(c[r]) = Width(c)
                  /\ MatSum(c) = n
                  /\ config_legal(c, model.phonon_max_per_site)
        /\ \A n \in 1..nb_max : \A w \in 1..model.phonon_absolute_extent :
              \A m \in AllMatrices(model.n_phonon_types, w, n) :
                  config_legal(m, model.phonon_max_per_site) =>
                      /\ Occurrences(config_dict[n], m) = 1
                      /\ \A k \in (1..nb_max) \ {n} : Occurrences(config_dict[k], m) = 0

C8_Witness ==
    /\ Returned
    /\ model.n_phonon_types = 2
    /\ model.phonon_absolute_extent = 2
    /\ nb_max = 3
    /\ \E i \in 1..Len(config_dict[3]) : Width(config_dict[3][i]) = 2

\* C7: with dimension > 1 the failure is signalled before any partition is
\* enumerated: nothing is generated or returned and construction never
\* reaches the generalized equations.
C7_DimensionFatal ==
    (pc # "idle" /\ model.dimension > 1) =>
        /\ pc \in {"start", "aborted"}
        /\ enumerated = 0
        /\ config_dict = <<>>
        /\ generalized_equations = <<>>
        /\ master_none
        /\ equations = <<>>

C7_Witness ==
    /\ pc = "aborted"
    /\ model.dimension > 1
    /\ "critical: >1 dimensions" \in log

GeneralizedBuilt == pc \in {"generalized", "expanded", "done"}

\* C4: after generalized-equation construction bucket 0 holds exactly one
\* equation, the Green's function equation, and no equation built from a
\* configuration is ever filed under bucket 0.
C4_GreenBucket ==
    /\ GeneralizedBuilt =>
          /\ 0 \in DOMAIN generalized_equations
          /\ Len(generalized_equations[0]) = 1
          /\ generalized_equations[0][1].cfg = GreenId
          /\ \A n \in DOMAIN generalized_equations \ {0} :
                \A i \in 1..Len(generalized_equations[n]) :
                    generalized_equations[n][i].cfg # GreenId
    /\ \A n \in DOMAIN generalized_equations :
          \A i \in 1..Len(generalized_equations[n]) :
              generalized_equations[n][i].cfg # GreenId => n # 0
    /\ 0 \notin DOMAIN config_dict

C4_Witness ==
    /\ pc = "generalized"
    /\ nb_max = 2
    /\ Len(generalized_equations[1]) = 1
    /\ Len(generalized_equations[2]) = 1
    /\ Len(generalized_equations[0]) = 1

Constructed == pc = "done"

\* C1: in every System whose construction completes, the identities of the
\* specific equations are exactly the identities of their right-hand-side
\* terms; a System whose sets differ is never handed to a caller.
C1_Closure ==
    (Constructed \/ basis_mode # "none") =>
        /\ pc = "done"
        /\ unique_short_identifiers = all_terms_rhs

C1_Witness ==
    /\ Constructed
    /\ Cardinality(unique_short_identifiers) >= 3
    /\ "info: closure checked and valid" \in log

Definers(id) == {i \in 1..Len(AllEquations) : IndexId(AllEquations[i]) = id}

Expanded == pc \in {"expanded", "done"}

GeneralizedOf(k) ==
    {i \in 1..Len(AllGeneralized(gen_keys, generalized_equations)) :
        AllGeneralized(gen_keys, generalized_equations)[i].cfg = k}

EveryKeyHasEquation ==
    \A k \in DOMAIN master_f_arg_list : GeneralizedOf(k) # {}

NoSharedIdentity ==
    \A k \in DOMAIN master_f_arg_list : Cardinality(GeneralizedOf(k)) <= 1

BasisValues(b) == {b[id] : id \in DOMAIN b}

\* C6: the full basis maps the identities onto 0..N-1 without repeats, N the
\* number of specific equations; the local basis maps the identities of each
\* bucket onto 0..n_bucket-1; both follow generation order within a bucket.
C6_Basis ==
    /\ basis_mode = "full" =>
          /\ DOMAIN basis = unique_short_identifiers
          /\ Cardinality(DOMAIN basis) = Len(AllEquations)
          /\ BasisValues(basis) = 0..(Len(AllEquations) - 1)
          /\ \A n \in DOMAIN equations : \A i, j \in 1..Len(equations[n]) :
                i < j => basis[IndexId(equations[n][i])] < basis[IndexId(equations[n][j])]
    /\ basis_mode = "local" =>
          /\ DOMAIN basis = DOMAIN equations
          /\ \A n \in DOMAIN equations :
                /\ BasisValues(basis[n]) = 0..(Len(equations[n]) - 1)
                /\ Cardinality(DOMAIN basis[n]) = Len(equations[n])
                /\ \A i \in 1..Len(equations[n]) :
                      basis[n][IndexId(equations[n][i])] = i - 1

C6_Witness ==
    /\ basis_mode = "full"
    /\ Len(AllEquations) >= 4
    /\ \E n \in DOMAIN equations : Len(equations[n]) >= 2

FatalCauses == {"critical: >1 dimensions", "KeyError", "critical: invalid closure"}

\* C9: a mismatch of the generalized-equation count with the analytic
\* prediction and a mismatch of the expanded count with the predicted total
\* are logged but not fatal: construction goes on to expansion and to the
\* closure check, and the equation mappings stay as generated.
C9_WarningsNonFatal ==
    /\ pc = "aborted" => FatalCauses \cap log # {}
    /\ "error: analytic count differs" \in log =>
          /\ pc \in {"generalized", "expanded", "done", "aborted"}
          /\ model.n_phonon_types = 1 /\ model.phonon_max_per_site = <<>>
          /\ Len(generalized_equations[0]) = 1
          /\ pc \in {"expanded", "done"} =>
                equations = Expand(gen_keys, generalized_equations, master_f_arg_list)
    /\ "error: equation count differs" \in log =>
          /\ pc \in {"expanded", "done", "aborted"}
          /\ totals # CountAll(gen_keys, equations)
          /\ equations = Expand(gen_keys, generalized_equations, master_f_arg_list)
          /\ pc = "aborted" => "critical: invalid closure" \in log

C9_Witness ==
    /\ pc = "aborted"
    /\ "error: analytic count differs" \in log
    /\ "error: equation count differs" \in log
    /\ "critical: invalid closure" \in log

AcceptedCycles(name) ==
    IF name \in (ListParams \ LinspaceParams) \cup ScalarParams
    THEN {"solo", "zip", "prod"}
    ELSE {"solo", "zip", "prod", "prod-linspace"}

Deduplicated ==
    \/ pc \in {"generalized", "expanded", "done"}
    \/ pc = "aborted" /\ ~master_none

Filed == AllGeneralized(gen_keys, generalized_equations)

\* The (equation, position) pairs at which filed equations require identity k.
Requirements(k) ==
    {<<i, j>> \in (1..Len(Filed)) \X (1..Len(Deltas)) :
        /\ k \in DOMAIN Filed[i].f_arg_terms
        /\ j <= Len(Filed[i].f_arg_terms[k])}

RequiredDeltas(k) == {Filed[p[1]].f_arg_terms[k][p[2]] : p \in Requirements(k)}

RequiredKeys == UNION {DOMAIN Filed[i].f_arg_terms : i \in 1..Len(Filed)}

\* C11: while equations are being filed the master list is the key-wise
\* concatenation of their requirements, repeats included; once the list is
\* deduplicated every generalized equation, the Green's function equation
\* included, has been merged, and under every key the list holds exactly the
\* distinct deltas some filed equation requires of that key, each once.
C11_DedupAfterMerge ==
    /\ (pc = "filing" /\ ~master_none) =>
          /\ DOMAIN master_f_arg_list = RequiredKeys
          /\ \A k \in DOMAIN master_f_arg_list :
                /\ Len(master_f_arg_list[k]) = Cardinality(Requirements(k))
                /\ Range(master_f_arg_list[k]) = RequiredDeltas(k)
    /\ Deduplicated =>
          /\ 0 \in DOMAIN generalized_equations
          /\ Len(Filed) = Len(FilingOrder) + 1
          /\ DOMAIN master_f_arg_list = RequiredKeys
          /\ \A k \in DOMAIN master_f_arg_list :
                /\ Range(master_f_arg_list[k]) = RequiredDeltas(k)
                /\ NoRepeats(master_f_arg_list[k])
                /\ Filed[1].cfg # GreenId /\ k \in DOMAIN Filed[1].f_arg_terms =>
                      Range(Filed[1].f_arg_terms[k]) \subseteq Range(master_f_arg_list[k])

\* Two equations, the first-filed one and a later one, require the same
\* delta of one identity, and another delta is required once.
C11_Witness ==
    /\ pc = "generalized"
    /\ Len(Filed) = 3
    /\ \E k \in DOMAIN master_f_arg_list :
          /\ Cardinality(Requirements(k)) = 3
          /\ Len(master_f_arg_list[k]) = 2
          /\ \E p, q \in Requirements(k) :
                /\ p[1] = 1 /\ q[1] > 1
                /\ Filed[p[1]].f_arg_terms[k][p[2]] = Filed[q[1]].f_arg_terms[k][q[2]]

\* The deltas the deduplicated master list holds for the e-th generalized
\* equation of bucket n.
DeltasOf(n, e) == master_f_arg_list[generalized_equations[n][e].cfg]

\* The number of specific equations the equations before the e-th yield.
Offset(n, e) == SumSeq([x \in 1..(e - 1) |-> Len(DeltasOf(n, x))])

\* C12: after expansion the specific-equation mapping has the bucket keys of
\* the generalized-equation mapping, in the same key order; bucket n holds,
\* for its generalized equations in filing order and for each of them the
\* deltas of the master list under its identity in list order, one equation
\* bound to that delta with the right-hand side of the generalized equation,
\* and nothing else.
C12_Expansion ==
    Expanded =>
        /\ DOMAIN equations = DOMAIN generalized_equations
        /\ DOMAIN equations = Range(gen_keys)
        /\ NoRepeats(gen_keys)
        /\ \A n \in DOMAIN generalized_equations :
              /\ Len(equations[n]) = Offset(n, Len(generalized_equations[n]) + 1)
              /\ \A e \in 1..Len(generalized_equations[n]) :
                 \A i \in 1..Len(DeltasOf(n, e)) :
                    LET s == equations[n][Offset(n, e) + i]
                        g == generalized_equations[n][e]
                    IN  /\ s.cfg = g.cfg
                        /\ s.delta = <<DeltasOf(n, e)[i]>>
                        /\ s.terms_list = g.terms_list
                        /\ s.f_arg_terms = g.f_arg_terms

\* A bucket of two generalized equations, and an equation bound to two deltas.
C12_Witness ==
    /\ Expanded
    /\ \E n \in DOMAIN generalized_equations :
          /\ Len(generalized_equations[n]) = 2
          /\ Len(equations[n]) = 2
    /\ \E m \in DOMAIN generalized_equations :
          /\ Len(generalized_equations[m]) = 1
          /\ Len(equations[m]) = 2
          /\ equations[m][1].delta # equations[m][2].delta

\* Nothing is bound in a generalized equation, and its argument-requirement
\* map is the one its right-hand side gave it.
Untouched(eq) ==
    /\ eq.delta = <<>>
    /\ eq.f_arg_terms = FArgTerms(eq.terms_list)

C13_Unbound ==
    /\ \A n \in DOMAIN generalized_equations :
       \A e \in 1..Len(generalized_equations[n]) :
           Untouched(generalized_equations[n][e])
    /\ Expanded =>
          \A n \in DOMAIN equations :
              /\ \A i \in 1..Len(equations[n]) : Len(equations[n][i].delta) = 1
              /\ \A i, j \in 1..Len(equations[n]) :
                    i # j => equations[n][i] # equations[n][j]

\* A filed generalized equation stays what it was, and the deduplicated
\* master list is not written again.
C13_Frame ==
    /\ \A n \in DOMAIN generalized_equations :
          /\ n \in DOMAIN generalized_equations'
          /\ \A e \in 1..Len(generalized_equations[n]) :
                /\ e <= Len(generalized_equations'[n])
                /\ generalized_equations'[n][e] = generalized_equations[n][e]
    /\ Deduplicated => master_f_arg_list' = master_f_arg_list

\* C13: merging and binding have value semantics. Every generalized equation
\* is, from filing on and after construction, unbound and equal to what it
\* was when filed, its own argument-requirement map included; every specific
\* equation is a separate copy bound to exactly one delta; the deduplicated
\* master list is never changed by expansion or by anything after it.
C13_ValueSemantics == []C13_Unbound /\ [][C13_Frame]_vars

\* A constructed System in which a generalized equation was bound twice and
\* in which the master list holds, under a key of the first-filed equation's
\* map, a delta that a later equation added.
C13_Witness ==
    /\ Constructed
    /\ \E n \in DOMAIN generalized_equations :
          Len(equations[n]) > Len(generalized_equations[n])
    /\ \E k \in DOMAIN Filed[1].f_arg_terms :
          Range(master_f_arg_list[k]) # Range(Filed[1].f_arg_terms[k])

\* The index get_basis(full_basis=True) gave the i-th equation of bucket n.
FullIndex(n, i) == basis[IndexId(equations[n][i])]

C14_Order ==
    /\ GeneralizedBuilt =>
          gen_keys = [i \in 1..(nb_max + 1) |-> IF i <= nb_max THEN i ELSE 0]
    /\ basis_mode = "full" =>
          /\ \A n, m \in 1..nb_max : n < m =>
                \A i \in 1..Len(equations[n]) : \A j \in 1..Len(equations[m]) :
                    FullIndex(n, i) < FullIndex(m, j)
          /\ \A i \in 1..Len(equations[0]) :
                /\ FullIndex(0, i) >= Len(AllEquations) - Len(equations[0])
                /\ FullIndex(0, i) # 0
                /\ \A m \in 1..nb_max : \A j \in 1..Len(equations[m]) :
                      FullIndex(m, j) < FullIndex(0, i)

\* get_basis writes nothing but its result, and a call that repeats the
\* previous call returns what that call returned.
C14_Repeat ==
    pc = "done" =>
        /\ equations' = equations
        /\ generalized_equations' = generalized_equations
        /\ gen_keys' = gen_keys
        /\ (basis_mode # "none" /\ basis_mode' = basis_mode) => basis' = basis

\* C14: the buckets are iterated in the order 1, 2, ..., nb_max, 0; in the
\* full basis the equations of bucket n >= 1 have smaller indices than those
\* of every bucket m > n and the zero-phonon equations have the largest
\* indices, not index 0; get_basis called again returns an equal mapping and
\* leaves the equation mappings unchanged.
C14_BucketOrder == []C14_Order /\ [][C14_Repeat]_vars

\* A full basis over buckets 1, 2 and 0, none of them empty.
C14_Witness ==
    /\ basis_mode = "full"
    /\ nb_max = 2
    /\ Len(equations[1]) >= 1
    /\ Len(equations[2]) >= 1
    /\ Len(equations[0]) >= 1
    /\ FullIndex(0, 1) = Len(AllEquations) - Len(equations[0])

Loaded == ppc = "loaded"

\* The common length of the zip parameters, 1 when there are none.
ZipLength == IF Len(lp_zip) = 0 THEN 1 ELSE lp_zip[1].len

ProdLengths == [i \in 1..Len(lp_prod) |-> Len(lp_prod[i].vals)]

ExpectedCount == ZipLength * ProdSeq(ProdLengths)

\* The combination the c-th dictionary belongs to: its zip index and its
\* position in the j-th prod list, the last prod list running fastest.
ZipIndexOf(c) == (c - 1) \div ProdSeq(ProdLengths)

PositionOf(c, j) ==
    (((c - 1) \div ProdSeq(SubSeq(ProdLengths, j + 1, Len(ProdLengths))))
        % ProdLengths[j]) + 1

WrittenKeys == {"model", "info"}

LaterNames ==
    {lp_zip[i].name : i \in 1..Len(lp_zip)} \cup {lp_prod[i].name : i \in 1..Len(lp_prod)}

\* Counting, end of iteration, restart and the rejection of unequal zips.
C15_Counting ==
    Loaded =>
        /\ \A i, j \in 1..Len(lp_zip) : lp_zip[i].len = lp_zip[j].len
        /\ counter_max = ExpectedCount
        /\ Len(yielded) <= counter_max
        /\ stopped => Len(yielded) = counter_max
        /\ previous # <<>> =>
              /\ Len(previous) = counter_max
              /\ yielded = SubSeq(previous, 1, Len(yielded))
        /\ \A c \in 1..Len(yielded) :
              DOMAIN yielded[c] =
                  {lp[i].name : i \in 1..Len(lp)} \cup WrittenKeys

\* The c-th dictionary is the one of the c-th combination.
C15_Combination(c) ==
    /\ \A i \in 1..Len(lp_zip) :
          yielded[c][lp_zip[i].name] = lp_zip[i].vals[ZipIndexOf(c) + 1]
    /\ \A j \in 1..Len(lp_prod) :
          yielded[c][lp_prod[j].name] = lp_prod[j].vals[PositionOf(c, j)]

\* No two positions of a prod list hold the same value, and no two zip
\* indexes the same values in every zip parameter.
DistinctValues ==
    /\ \A j \in 1..Len(lp_prod) : NoRepeats(lp_prod[j].vals)
    /\ Len(lp_zip) > 0 =>
          \A a, b \in 1..ZipLength :
              a # b => \E i \in 1..Len(lp_zip) : lp_zip[i].vals[a] # lp_zip[i].vals[b]

====
